---- MODULE Spec2Model ----
(***************************************************************************)
(* Model of the two Formula 1 scrapers:                                    *)
(*   web_scraping_cirquits.py  fetch -> locate table -> parse -> clean ->  *)
(*                             save                                        *)
(*   web_scraping_winners.py   init driver -> per-year scrape -> concat -> *)
(*                             clean -> save                               *)
(* Text is a sequence of one-character strings, so that strip(), lower()   *)
(* and replace() are computed, not assumed.                                *)
(***************************************************************************)
EXTENDS Integers, Sequences, FiniteSets, TLC

(* ---------------------------------------------------------------------- *)
(* Bounds                                                                  *)
(* ---------------------------------------------------------------------- *)
MaxTables == 2      \* tables in a document given to the table locator
MaxRows == 2        \* data rows in a table given to the record extractor
MaxYears == 2       \* periods given to scrape_all
MaxCleanRows == 2   \* rows of a frame given to clean_data
MaxCols == 1        \* free-form column names of a frame given to clean_data
MaxNameLen == 2     \* characters of a free-form column name

(* ---------------------------------------------------------------------- *)
(* Generic helpers                                                         *)
(* ---------------------------------------------------------------------- *)
None == <<>>
Some(x) == <<x>>

Range(s) == {s[i] : i \in 1..Len(s)}

SeqsUpTo(S, n) == UNION {[1..k -> S] : k \in 0..n}

MinOf(S) == CHOOSE x \in S : \A y \in S : x <= y
MaxOf(S) == CHOOSE x \in S : \A y \in S : x >= y

Whitespace == {" "}

\* str.strip(): drops the leading and the trailing whitespace characters
Strip(s) ==
    LET keep == {i \in 1..Len(s) : s[i] \notin Whitespace}
    IN  IF keep = {} THEN <<>> ELSE SubSeq(s, MinOf(keep), MaxOf(keep))

\* values held by a DataFrame cell
Str(s) == <<"str", s>>
Num(n) == <<"num", n>>
NaN == <<"nan", 0>>
NaT == <<"nat", 0>>
Date(y, m, d) == <<"date", <<y, m, d>>>>
IsStr(v) == v[1] = "str"

(* ---------------------------------------------------------------------- *)
(* HTML documents: a document is a sequence of tables in document order,  *)
(* a table has a set of CSS classes and a sequence of rows (tr), a row is *)
(* a sequence of cells, a cell is a th or a td holding text.              *)
(* ---------------------------------------------------------------------- *)
th(t) == [tag |-> "th", text |-> t]
td(t) == [tag |-> "td", text |-> t]
Table(cls, rows) == [class |-> cls, rows |-> rows]

\* element.get_text(strip=True); a cell holds one text node
get_text(cell) == Strip(cell.text)

RECURSIVE Flatten(_)
Flatten(rows) == IF rows = <<>> THEN <<>> ELSE Head(rows) \o Flatten(Tail(rows))

\* element.find_all(tag) over the cells of a row or of a whole table
find_all_cells(cells, tag) == SelectSeq(cells, LAMBDA c : c.tag = tag)

Circuit == <<"C", "i", "r", "c", "u", "i", "t">>

\* [th.get_text(strip=True) for th in t.find_all('th')]
headers(t) ==
    LET ths == find_all_cells(Flatten(t.rows), "th")
    IN  [i \in 1..Len(ths) |-> get_text(ths[i])]

RECURSIVE first_with_circuit(_)
first_with_circuit(tables) ==
    IF tables = <<>> THEN None
    ELSE IF Circuit \in Range(headers(Head(tables))) THEN Some(Head(tables))
    ELSE first_with_circuit(Tail(tables))

\* variant: every table is a candidate, whatever its class
find_circuits_table_any_class(soup) == first_with_circuit(soup)

find_circuits_table(soup) ==
    first_with_circuit(SelectSeq(soup, LAMBDA t : "wikitable" \in t.class))

(* ---------------------------------------------------------------------- *)
(* DataFrames: column names in order, rows in order, each row positional  *)
(* ---------------------------------------------------------------------- *)
DataFrame(cols, rows) == [columns |-> cols, rows |-> rows]

CircuitColumns ==
    << <<"c","i","r","c","u","i","t">>,
       <<"l","o","c","a","t","i","o","n">>,
       <<"c","o","u","n","t","r","y">>,
       <<"l","a","s","t","_","l","e","n","g","t","h","_","u","s","e","d">>,
       <<"c","i","r","c","u","i","t","_","l","a","p","s">>,
       <<"s","e","a","s","o","n","s">> >>

\* variant: location read from cell 3
PickedColsShifted == <<1, 4, 6, 7, 8, 10>>

\* zero-based indices 0, 4, 5, 6, 7, 9 of the td cells
PickedCols == <<1, 5, 6, 7, 8, 10>>
MinCols == 10

extract_row(cols) == [k \in 1..Len(PickedCols) |-> Str(get_text(cols[PickedCols[k]]))]

RECURSIVE parse_rows_strict(_)
\* variant: a row needs more than MinCols cells
parse_rows_strict(trs) ==
    IF trs = <<>> THEN <<>>
    ELSE LET cols == find_all_cells(Head(trs), "td")
         IN  (IF Len(cols) > MinCols THEN <<extract_row(cols)>> ELSE <<>>)
             \o parse_rows_strict(Tail(trs))

RECURSIVE parse_rows(_)
parse_rows(trs) ==
    IF trs = <<>> THEN <<>>
    ELSE LET cols == find_all_cells(Head(trs), "td")
         IN  (IF Len(cols) >= MinCols THEN <<extract_row(cols)>> ELSE <<>>)
             \o parse_rows(Tail(trs))

parse_circuits_table(table) ==
    DataFrame(CircuitColumns,
              parse_rows(IF table.rows = <<>> THEN <<>> ELSE Tail(table.rows)))

\* c.lower().replace(' ', '_')
UpperChars == <<"A","B","C","D","E","F","G","H","I","J","K","L","M",
                "N","O","P","Q","R","S","T","U","V","W","X","Y","Z">>
LowerChars == <<"a","b","c","d","e","f","g","h","i","j","k","l","m",
                "n","o","p","q","r","s","t","u","v","w","x","y","z">>
lower_char(c) ==
    IF \E i \in 1..26 : UpperChars[i] = c
    THEN LowerChars[CHOOSE i \in 1..26 : UpperChars[i] = c]
    ELSE c
lower(s) == [i \in 1..Len(s) |-> lower_char(s[i])]
replace_space(s) == [i \in 1..Len(s) |-> IF s[i] = " " THEN "_" ELSE s[i]]
\* variant: swaps the case of every letter instead of lower-casing
swapcase_char(c) ==
    IF \E i \in 1..26 : UpperChars[i] = c
    THEN LowerChars[CHOOSE i \in 1..26 : UpperChars[i] = c]
    ELSE IF \E i \in 1..26 : LowerChars[i] = c
    THEN UpperChars[CHOOSE i \in 1..26 : LowerChars[i] = c]
    ELSE c
normalize_name_swapcase(c) == replace_space([i \in 1..Len(c) |-> swapcase_char(c[i])])

normalize_name(c) == replace_space(lower(c))
normalize_columns(cols) == [i \in 1..Len(cols) |-> normalize_name(cols[i])]

strip_value(x) == IF IsStr(x) THEN Str(Strip(x[2])) ELSE x

clean_data_circuits(df) ==
    DataFrame(normalize_columns(df.columns),
              [r \in 1..Len(df.rows) |->
                  [k \in 1..Len(df.rows[r]) |-> strip_value(df.rows[r][k])]])

(* ---------------------------------------------------------------------- *)
(* Inputs of the circuits run                                              *)
(* ---------------------------------------------------------------------- *)
DigitChars == <<"0", "1", "2", "3", "4", "5", "6", "7", "8", "9">>

\* a cell text that names its position k and carries surrounding blanks
Pad(k, v) == <<" ", DigitChars[(k % 10) + 1], v, " ">>

HeaderRow == <<th(<<" ">> \o Circuit \o <<" ">>), th(<<"M", "a", "p">>)>>

Silverstone == <<"S","i","l","v","e","r","s","t","o","n","e">>
RowSilverstone ==
    << td(Silverstone), td(<<"m">>), td(<<"R","a","c","e">>), td(<<"C","W">>),
       td(Silverstone), td(<<"U","K">>), td(<<"5",".","8","9","1"," ","k","m">>),
       td(<<"5","2">>), td(<<"G","P">>),
       td(<<"1","9","5","0","-","p","r","e","s","e","n","t">>) >>
RowPadded == [k \in 1..10 |-> td(Pad(k - 1, "a"))]
\* as RowPadded, but cells 1, 2, 3 and 8 carry other text
RowOther ==
    [k \in 1..10 |-> td(Pad(k - 1, IF k \in {2, 3, 4, 9} THEN "b" ELSE "a"))]
RowNine == [k \in 1..9 |-> td(Pad(k - 1, "n"))]
RowEleven == [k \in 1..11 |-> td(Pad(k - 1, "e"))]
\* a row header cell followed by nine / ten data cells
RowThNine == <<th(<<"h">>)>> \o [k \in 1..9 |-> td(Pad(k - 1, "t"))]
RowThTen == <<th(<<"h">>)>> \o [k \in 1..10 |-> td(Pad(k - 1, "u"))]
RowEmpty == <<>>

DataRows ==
    {RowSilverstone, RowPadded, RowOther, RowNine, RowEleven, RowThNine,
     RowThTen, RowEmpty}

\* documents with one circuits table of up to MaxRows data rows
ParseDocs ==
    {<<Table({"wikitable", "sortable"}, <<HeaderRow>> \o rs)>> :
        rs \in SeqsUpTo(DataRows, MaxRows)}

Country == <<"C","o","u","n","t","r","y">>
LocateTables ==
    { Table({"wikitable"}, <<HeaderRow>>),
      Table({"wikitable", "sortable"}, <<HeaderRow, RowPadded>>),
      Table({"wikitable"}, <<<<th(<<"c","i","r","c","u","i","t">>)>>>>),
      Table({"wikitable"}, <<<<th(Circuit \o <<"s">>)>>>>),
      Table({"wikitable"}, <<<<td(Circuit)>>, RowNine>>),
      Table({"wikitable"}, <<<<th(Country)>>, <<th(Circuit), td(<<"x">>)>>>>),
      Table({"wikitable"}, <<>>),
      Table({"infobox"}, <<<<th(Circuit)>>>>) }

\* documents of up to MaxTables tables
LocateDocs == SeqsUpTo(LocateTables, MaxTables)

Docs == ParseDocs \cup LocateDocs

(* ---------------------------------------------------------------------- *)
(* Results pipeline: pure parts                                            *)
(* ---------------------------------------------------------------------- *)
\* a results table: CSS classes, header texts, body rows of cell texts
ResultTable(cls, header, body) == [class |-> cls, header |-> header, body |-> body]

IsDigit(c) == \E i \in 1..10 : DigitChars[i] = c
DigitVal(c) == (CHOOSE i \in 1..10 : DigitChars[i] = c) - 1

RECURSIVE IntToChars(_)
\* str(n) of a non-negative int
IntToChars(n) ==
    IF n < 10 THEN <<DigitChars[n + 1]>>
    ELSE IntToChars(n \div 10) \o <<DigitChars[(n % 10) + 1]>>

RECURSIVE CharsToInt(_)
CharsToInt(s) ==
    IF s = <<>> THEN 0
    ELSE 10 * CharsToInt(SubSeq(s, 1, Len(s) - 1)) + DigitVal(s[Len(s)])

ColIndex(cols, name) == MinOf({i \in 1..Len(cols) : cols[i] = name})
HasCol(cols, name) == \E i \in 1..Len(cols) : cols[i] = name

\* pd.read_html(...)[0]: header texts become the columns, every body cell
\* becomes its trimmed text, an empty cell becomes NaN
read_html(t) ==
    DataFrame(t.header,
              [r \in 1..Len(t.body) |->
                  [k \in 1..Len(t.body[r]) |->
                      IF Strip(t.body[r][k]) = <<>> THEN NaN
                      ELSE Str(Strip(t.body[r][k]))]])

YearCol == <<"y", "e", "a", "r">>
DateCol == <<"d", "a", "t", "e">>
LapsCol == <<"l", "a", "p", "s">>

\* variant: an existing year column is left as it is
set_year_keeps_existing(df, year) ==
    IF HasCol(df.columns, YearCol) THEN df
    ELSE DataFrame(Append(df.columns, YearCol),
                   [r \in 1..Len(df.rows) |-> Append(df.rows[r], Num(year))])

\* df['year'] = year
set_year(df, year) ==
    IF HasCol(df.columns, YearCol)
    THEN DataFrame(df.columns,
                   [r \in 1..Len(df.rows) |->
                       [df.rows[r] EXCEPT ![ColIndex(df.columns, YearCol)] = Num(year)]])
    ELSE DataFrame(Append(df.columns, YearCol),
                   [r \in 1..Len(df.rows) |-> Append(df.rows[r], Num(year))])

\* soup.find('table', class_='f1-table')
find_f1_table(doc) ==
    LET hit == {i \in 1..Len(doc) : "f1-table" \in doc[i].class}
    IN  IF hit = {} THEN None ELSE Some(doc[MinOf(hit)])

\* scrape_year after the page is loaded: the tagged frame, or None
scrape_year(doc, year) ==
    LET t == find_f1_table(doc)
    IN  IF t # None THEN Some(set_year(read_html(t[1]), year)) ELSE None

\* variant: the frame is appended whether or not a table was found
append_year_always(races, df_year) ==
    Append(races, IF df_year # None THEN df_year[1] ELSE DataFrame(<<>>, <<>>))

\* scrape_all: if df_year is not None: all_races.append(df_year)
append_year(races, df_year) ==
    IF df_year # None THEN Append(races, df_year[1]) ELSE races

RECURSIVE union_columns(_)
\* columns of pd.concat: union, in order of first appearance
union_columns(frames) ==
    IF frames = <<>> THEN <<>>
    ELSE LET before == union_columns(SubSeq(frames, 1, Len(frames) - 1))
             last == frames[Len(frames)].columns
         IN  before \o SelectSeq(last, LAMBDA c : ~HasCol(before, c))

reindex(df, cols) ==
    [r \in 1..Len(df.rows) |->
        [k \in 1..Len(cols) |->
            IF HasCol(df.columns, cols[k])
            THEN df.rows[r][ColIndex(df.columns, cols[k])]
            ELSE NaN]]

RECURSIVE concat_rows(_, _)
concat_rows(frames, cols) ==
    IF frames = <<>> THEN <<>>
    ELSE reindex(Head(frames), cols) \o concat_rows(Tail(frames), cols)

\* pd.concat(all_races, ignore_index=True) if all_races else pd.DataFrame()
concat(frames) ==
    IF frames = <<>> THEN DataFrame(<<>>, <<>>)
    ELSE DataFrame(union_columns(frames), concat_rows(frames, union_columns(frames)))

\* DataFrame.empty
empty(df) == Len(df.columns) = 0 \/ Len(df.rows) = 0

\* variant: an unparseable value is kept (errors='ignore')
to_numeric_ignore(v) ==
    IF IsStr(v)
    THEN LET s == Strip(v[2])
         IN  IF s # <<>> /\ \A i \in 1..Len(s) : IsDigit(s[i])
             THEN Num(CharsToInt(s)) ELSE v
    ELSE v

\* pd.to_numeric(..., errors='coerce') of one value
to_numeric(v) ==
    IF IsStr(v)
    THEN LET s == Strip(v[2])
         IN  IF s # <<>> /\ \A i \in 1..Len(s) : IsDigit(s[i])
             THEN Num(CharsToInt(s)) ELSE NaN
    ELSE v

\* astype(str) of one value
astype_str(v) ==
    CASE v[1] = "str" -> v[2]
      [] v[1] = "num" -> IntToChars(v[2])
      [] OTHER -> <<"n", "a", "n">>

MonthNames ==
    << <<"j","a","n">>, <<"f","e","b">>, <<"m","a","r">>, <<"a","p","r">>,
       <<"m","a","y">>, <<"j","u","n">>, <<"j","u","l">>, <<"a","u","g">>,
       <<"s","e","p">>, <<"o","c","t">>, <<"n","o","v">>, <<"d","e","c">> >>

IsLeap(y) == (y % 4 = 0 /\ y % 100 # 0) \/ y % 400 = 0
DaysIn(y, m) ==
    IF m = 2 THEN (IF IsLeap(y) THEN 29 ELSE 28)
    ELSE IF m \in {4, 6, 9, 11} THEN 30 ELSE 31

\* number of characters the %d directive consumes at the start of s, 0 if
\* it does not match: 3[0-1] | [1-2]\d | 0[1-9] | [1-9] | ' '[1-9]
day_width(s) ==
    IF Len(s) >= 2 /\ s[1] = "3" /\ s[2] \in {"0", "1"} THEN 2
    ELSE IF Len(s) >= 2 /\ s[1] \in {"1", "2"} /\ IsDigit(s[2]) THEN 2
    ELSE IF Len(s) >= 2 /\ s[1] = "0" /\ IsDigit(s[2]) /\ s[2] # "0" THEN 2
    ELSE IF Len(s) >= 1 /\ IsDigit(s[1]) /\ s[1] # "0" THEN 1
    ELSE IF Len(s) >= 2 /\ s[1] = " " /\ IsDigit(s[2]) /\ s[2] # "0" THEN 2
    ELSE 0

\* number of leading whitespace characters (the \s+ of the format's blank)
blank_width(s) ==
    LET stop == {i \in 1..Len(s) : s[i] \notin Whitespace}
    IN  IF stop = {} THEN Len(s) ELSE MinOf(stop) - 1

Drop(s, n) == SubSeq(s, n + 1, Len(s))

\* pd.to_datetime(text, format='%d %b %Y', errors='coerce') of one value
to_datetime(s) ==
    LET dw == day_width(s)
        s1 == Drop(s, dw)
        b1 == blank_width(s1)
        s2 == Drop(s1, b1)
        mon == lower(SubSeq(s2, 1, 3))
        s3 == Drop(s2, 3)
        b2 == blank_width(s3)
        s4 == Drop(s3, b2)
    IN  IF /\ dw > 0
           /\ b1 > 0
           /\ Len(s2) >= 3
           /\ mon \in Range(MonthNames)
           /\ b2 > 0
           /\ Len(s4) = 4
           /\ \A i \in 1..4 : IsDigit(s4[i])
        THEN LET d == CharsToInt(Strip(SubSeq(s, 1, dw)))
                 m == ColIndex(MonthNames, mon)
                 y == CharsToInt(s4)
             IN  IF y >= 1 /\ d <= DaysIn(y, m) THEN Date(y, m, d) ELSE NaT
        ELSE NaT

\* if 'laps' in df.columns: df['laps'] = pd.to_numeric(df['laps'], errors='coerce')
coerce_laps(df) ==
    IF HasCol(df.columns, LapsCol)
    THEN DataFrame(df.columns,
            [r \in 1..Len(df.rows) |->
                [df.rows[r] EXCEPT ![ColIndex(df.columns, LapsCol)] = to_numeric(@)]])
    ELSE df

\* df['full_date'] = date + ' ' + year; df['date'] = to_datetime(full_date);
\* df.drop(columns=['full_date'])
combine_date(df) ==
    IF HasCol(df.columns, DateCol) /\ HasCol(df.columns, YearCol)
    THEN DataFrame(df.columns,
            [r \in 1..Len(df.rows) |->
                [df.rows[r] EXCEPT ![ColIndex(df.columns, DateCol)] =
                    to_datetime(astype_str(@) \o <<" ">>
                        \o astype_str(df.rows[r][ColIndex(df.columns, YearCol)]))]])
    ELSE df

clean_data_results(df) ==
    combine_date(coerce_laps(DataFrame(normalize_columns(df.columns), df.rows)))

(* ---------------------------------------------------------------------- *)
(* Inputs of the results run                                               *)
(* ---------------------------------------------------------------------- *)
Years == {2020, 2021}

GrandPrixName == <<"G", "r", "a", "n", "d", " ", "P", "r", "i", "x">>
DateName == <<"D", "a", "t", "e">>
LapsName == <<"L", "a", "p", "s">>
ResultHeader == <<GrandPrixName, DateName, LapsName>>

FiveMar == <<"5", " ", "M", "a", "r">>
FebTwentyNine == <<"2", "9", " ", "F", "e", "b">>

TableA ==
    ResultTable({"f1-table"}, ResultHeader,
                << <<<<"G", "B">>, <<" ">> \o FiveMar, <<"5", "2">>>> >>)
TableB ==
    ResultTable({"f1-table", "wide"}, ResultHeader,
                << <<<<"I", "T">>, <<"T", "B", "C">>, <<"d", "n", "f">>>>,
                   <<<<"M", "C">>, FebTwentyNine, <<"7", "8">>>> >>)
\* no date column, and a year column of its own
TableC ==
    ResultTable({"f1-table"}, <<LapsName, YearCol>>,
                << <<<<"6", "0">>, <<"1", "9", "9", "9">>>> >>)
\* header only
TableE == ResultTable({"f1-table"}, ResultHeader, <<>>)
TableOther ==
    ResultTable({"nav"}, ResultHeader,
                << <<<<"X">>, FiveMar, <<"1">>>> >>)

\* HTTP status of the response behind a rendered page; scrape_year never
\* reads it
Statuses == {200, 404}
IsHttpError(st) == st >= 400

\* rendered pages a period's URL can serve
Pages ==
    { <<>>, <<TableOther>>, <<TableA>>, <<TableB>>, <<TableC>>, <<TableE>>,
      <<TableOther, TableA>>, <<TableB, TableA>> }

(* ---------------------------------------------------------------------- *)
(* Inputs of clean_data                                                    *)
(* ---------------------------------------------------------------------- *)
DateValues ==
    { Str(FiveMar),
      Str(<<"0", "5", " ", " ", "m", "a", "r">>),
      Str(FebTwentyNine),
      Str(<<"3", "1", " ", "A", "p", "r">>),
      Str(<<"3", "2", " ", "J", "a", "n">>),
      Str(<<"M", "a", "r", " ", "5">>),
      Str(<<"5", " ", "M", "a", "r", " ", "2", "0">>),
      NaN }
LapsValues ==
    { Str(<<"5", "2">>), Str(<<"d", "n", "f">>), Str(<<"5", "x">>), NaN }

ScrapedColumns == <<GrandPrixName, DateName, LapsName, YearCol>>
\* every date value with a numeric laps value, every laps value with a
\* valid date
ScrapedRows ==
    { <<Str(<<"G", "P">>), d, Str(<<"5", "2">>), Num(y)>> :
        d \in DateValues, y \in Years }
    \cup { <<Str(<<"G", "P">>), Str(FiveMar), l, Num(y)>> :
        l \in LapsValues, y \in Years }

\* frames as scrape_all returns them for tables with the site's columns
ScrapedFrames ==
    {DataFrame(ScrapedColumns, rs) : rs \in SeqsUpTo(ScrapedRows, MaxCleanRows)}

NameChars == {"A", "a", " ", "_"}
Names == SeqsUpTo(NameChars, MaxNameLen)

\* frames with free-form column names and one row
NamedFrames ==
    {DataFrame(cs \o <<YearCol>>, <<[k \in 1..Len(cs) + 1 |-> Num(2021)]>>) :
        cs \in SeqsUpTo(Names, MaxCols)}

CleanFrames == ScrapedFrames \cup NamedFrames \cup {DataFrame(<<>>, <<>>)}

(* ---------------------------------------------------------------------- *)
(* State                                                                   *)
(* ---------------------------------------------------------------------- *)
VARIABLES
    web,          \* circuits run: the document served at the URL
    cpc,          \* circuits run: position in main
    soup,         \* circuits run: parsed page, None before fetch_page returns
    table,        \* circuits run: result of find_circuits_table
    df_circuits,  \* circuits run: the DataFrame, None before parsing
    csv,          \* circuits run: the output file, None while not written
    out,          \* circuits run: lines printed
    calls,        \* circuits run: functions invoked so far, in order
    requests,     \* circuits run: number of requests.get calls
    rpc,          \* results run: position in main / scrape_all
    years,        \* results run: the periods given to scrape_all
    done,         \* results run: number of periods the loop has finished
    driver,       \* results run: "none", "open" or "quit"
    inits,        \* results run: number of init_driver calls
    quits,        \* results run: number of driver.quit calls
    gets,         \* results run: the periods passed to driver.get, in order
    pages,        \* results run: the page each driver.get rendered, in order
    statuses,     \* results run: the HTTP status behind each rendered page
    all_races,    \* results run: the accumulation list
    raw,          \* results run: the frame scrape_all returned
    df_all_races, \* results run: the frame main holds
    rcsv,         \* results run: the output file, None while not written
    rout          \* results run: lines printed

cvars == <<web, cpc, soup, table, df_circuits, csv, out, calls, requests>>
rvars ==
    <<rpc, years, done, driver, inits, quits, gets, pages, statuses, all_races,
      raw, df_all_races, rcsv, rout>>
vars == <<cvars, rvars>>

\* the circuits program is not the one running
CircuitsIdle ==
    /\ web = <<>>
    /\ cpc = "idle"
    /\ soup = None
    /\ table = None
    /\ df_circuits = None
    /\ csv = None
    /\ out = <<>>
    /\ calls = <<>>
    /\ requests = 0

\* the results program is not the one running
ResultsIdle ==
    /\ rpc = "idle"
    /\ years = <<>>
    /\ done = 0
    /\ driver = "none"
    /\ inits = 0
    /\ quits = 0
    /\ gets = <<>>
    /\ pages = <<>>
    /\ statuses = <<>>
    /\ all_races = <<>>
    /\ raw = None
    /\ df_all_races = None
    /\ rcsv = None
    /\ rout = <<>>

InitCircuits ==
    /\ web \in Docs
    /\ cpc = "start"
    /\ soup = None
    /\ table = None
    /\ df_circuits = None
    /\ csv = None
    /\ out = <<>>
    /\ calls = <<>>
    /\ requests = 0
    /\ ResultsIdle

InitResults ==
    /\ rpc = "start"
    /\ years \in SeqsUpTo(Years, MaxYears)
    /\ done = 0
    /\ driver = "none"
    /\ inits = 0
    /\ quits = 0
    /\ gets = <<>>
    /\ pages = <<>>
    /\ statuses = <<>>
    /\ all_races = <<>>
    /\ raw = None
    /\ df_all_races = None
    /\ rcsv = None
    /\ rout = <<>>
    /\ CircuitsIdle

(* ---------------------------------------------------------------------- *)
(* The circuits run: main of web_scraping_cirquits.py                      *)
(* ---------------------------------------------------------------------- *)
\* outcomes of requests.get + raise_for_status
FetchOutcomes == {"ok", "network_error", "http_error"}

\* main: soup = fetch_page(url); an exception leaves main
fetch_page ==
    /\ cpc = "start"
    /\ calls' = Append(calls, "fetch_page")
    /\ requests' = requests + 1
    /\ \E o \in FetchOutcomes :
          IF o = "ok"
          THEN soup' = Some(web) /\ cpc' = "fetched"
          ELSE soup' = soup /\ cpc' = "aborted"
    /\ UNCHANGED <<web, table, df_circuits, csv, out>>
    /\ UNCHANGED rvars

\* main: table = find_circuits_table(soup)
locate_table ==
    /\ cpc = "fetched"
    /\ calls' = Append(calls, "find_circuits_table")
    /\ table' = find_circuits_table(soup[1])
    /\ cpc' = "located"
    /\ UNCHANGED <<web, soup, df_circuits, csv, out, requests>>
    /\ UNCHANGED rvars

\* main: if table: parse_circuits_table, clean_data, to_csv, print, print
table_found ==
    /\ cpc = "located"
    /\ table # None
    /\ calls' = calls \o <<"parse_circuits_table", "clean_data", "to_csv">>
    /\ df_circuits' = Some(clean_data_circuits(parse_circuits_table(table[1])))
    /\ csv' = df_circuits'
    /\ out' = out \o <<"SAVED", "head">>
    /\ cpc' = "done"
    /\ UNCHANGED <<web, soup, table, requests>>
    /\ UNCHANGED rvars

\* variant: the missing table still produces an (empty) output file
no_table_writes ==
    /\ cpc = "located"
    /\ table = None
    /\ out' = Append(out, "No table found.")
    /\ csv' = Some(DataFrame(CircuitColumns, <<>>))
    /\ cpc' = "done"
    /\ UNCHANGED <<web, soup, table, df_circuits, calls, requests>>
    /\ UNCHANGED rvars

\* main: else: print("No table found.")
no_table ==
    /\ cpc = "located"
    /\ table = None
    /\ out' = Append(out, "No table found.")
    /\ cpc' = "done"
    /\ UNCHANGED <<web, soup, table, df_circuits, csv, calls, requests>>
    /\ UNCHANGED rvars

(* ---------------------------------------------------------------------- *)
(* The results run: main and scrape_all of web_scraping_winners.py         *)
(* ---------------------------------------------------------------------- *)
\* scrape_all: driver = init_driver(); all_races = []
init_driver ==
    /\ rpc = "start"
    /\ driver' = "open"
    /\ inits' = inits + 1
    /\ all_races' = <<>>
    /\ rpc' = "loop"
    /\ UNCHANGED <<years, done, quits, gets, pages, statuses, raw, df_all_races,
                   rcsv, rout>>
    /\ UNCHANGED cvars

\* one iteration of the loop of scrape_all, driver.get returning a page
scrape_period ==
    /\ rpc = "loop"
    /\ done < Len(years)
    /\ \E doc \in Pages, st \in Statuses :
          LET year == years[done + 1]
              df_year == scrape_year(doc, year)
          IN  /\ gets' = Append(gets, year)
              /\ pages' = Append(pages, doc)
              /\ statuses' = Append(statuses, st)
              /\ rout' = rout \o <<<<"Saving data for", year>>>>
                              \o (IF df_year = None
                                  THEN <<<<"No data for", year>>>> ELSE <<>>)
              /\ all_races' = append_year(all_races, df_year)
    /\ done' = done + 1
    /\ UNCHANGED <<rpc, years, driver, inits, quits, raw, df_all_races, rcsv>>
    /\ UNCHANGED cvars

\* variant: the failure is swallowed and the period skipped
scrape_period_fails_skips ==
    /\ rpc = "loop"
    /\ done < Len(years)
    /\ gets' = Append(gets, years[done + 1])
    /\ rout' = Append(rout, <<"Saving data for", years[done + 1]>>)
    /\ done' = done + 1
    /\ UNCHANGED <<rpc, years, driver, inits, quits, pages, statuses, all_races,
                   raw, df_all_races, rcsv>>
    /\ UNCHANGED cvars

\* one iteration of the loop of scrape_all, driver.get raising: the
\* exception leaves scrape_year, scrape_all and main
scrape_period_fails ==
    /\ rpc = "loop"
    /\ done < Len(years)
    /\ gets' = Append(gets, years[done + 1])
    /\ rout' = Append(rout, <<"Saving data for", years[done + 1]>>)
    /\ rpc' = "aborted"
    /\ UNCHANGED <<years, done, driver, inits, quits, pages, statuses, all_races,
                   raw, df_all_races, rcsv>>
    /\ UNCHANGED cvars

\* scrape_all: driver.quit(); return pd.concat(...) or pd.DataFrame()
scrape_all_returns ==
    /\ rpc = "loop"
    /\ done = Len(years)
    /\ driver' = "quit"
    /\ quits' = quits + 1
    /\ raw' = Some(concat(all_races))
    /\ df_all_races' = Some(concat(all_races))
    /\ rpc' = "scraped"
    /\ UNCHANGED <<years, done, inits, gets, pages, statuses, all_races, rcsv,
                   rout>>
    /\ UNCHANGED cvars

\* main: if not df_all_races.empty: clean_data, to_csv, print
main_saves ==
    /\ rpc = "scraped"
    /\ ~empty(df_all_races[1])
    /\ df_all_races' = Some(clean_data_results(df_all_races[1]))
    /\ rcsv' = df_all_races'
    /\ rout' = Append(rout, <<"SAVED", 0>>)
    /\ rpc' = "done"
    /\ UNCHANGED <<years, done, driver, inits, quits, gets, pages, statuses,
                   all_races, raw>>
    /\ UNCHANGED cvars

\* main: else: print("No data found.")
main_no_data ==
    /\ rpc = "scraped"
    /\ empty(df_all_races[1])
    /\ rout' = Append(rout, <<"No data found.", 0>>)
    /\ rpc' = "done"
    /\ UNCHANGED <<years, done, driver, inits, quits, gets, pages, statuses,
                   all_races, raw, df_all_races, rcsv>>
    /\ UNCHANGED cvars

(* ---------------------------------------------------------------------- *)
(* Specifications                                                          *)
(* ---------------------------------------------------------------------- *)
\* a run of either program
Init == InitCircuits \/ InitResults

Next ==
    \/ fetch_page
    \/ locate_table
    \/ table_found
    \/ no_table
    \/ init_driver
    \/ scrape_period
    \/ scrape_period_fails
    \/ scrape_all_returns
    \/ main_saves
    \/ main_no_data

Spec == Init /\ [][Next]_vars

\* clean_data of the results run, applied by main to a frame scrape_all
\* returned
InitClean ==
    /\ rpc = "scraped"
    /\ years = <<>>
    /\ done = 0
    /\ driver = "quit"
    /\ inits = 1
    /\ quits = 1
    /\ gets = <<>>
    /\ pages = <<>>
    /\ statuses = <<>>
    /\ all_races = <<>>
    /\ raw \in {Some(f) : f \in CleanFrames}
    /\ df_all_races = raw
    /\ rcsv = None
    /\ rout = <<>>
    /\ CircuitsIdle

NextClean ==
    \/ main_saves
    \/ main_no_data

SpecClean == InitClean /\ [][NextClean]_vars

(* ---------------------------------------------------------------------- *)
(* Properties of the results run                                           *)
(* ---------------------------------------------------------------------- *)
RunEnded == rpc \in {"done", "aborted"}

\* C1: in every run of scrape_all the driver is acquired exactly once
\* before the first period is processed and released exactly once when the
\* run ends, also when a period's page acquisition fails: no run ends with
\* the driver acquired and not released.
C1_DriverReleasedOnEveryOutcome ==
    /\ inits <= 1
    /\ quits <= 1
    /\ (gets # <<>> => inits = 1)
    /\ (RunEnded => inits = 1 /\ quits = 1 /\ driver = "quit")

\* the rows of the f1-table of the page rendered for the i-th period, each
\* with the period it was requested for
SourceRows(i) ==
    LET t == find_f1_table(pages[i])
    IN  IF t = None THEN <<>>
        ELSE [r \in 1..Len(t[1].body) |->
                [period |-> years[i], header |-> t[1].header, cells |-> t[1].body[r]]]

RECURSIVE SourceRowsUpTo(_)
SourceRowsUpTo(n) == IF n = 0 THEN <<>> ELSE SourceRowsUpTo(n - 1) \o SourceRows(n)

CellValue(text) == IF Strip(text) = <<>> THEN NaN ELSE Str(Strip(text))

\* C2: when scrape_all returns, a period whose page has no table of class
\* f1-table was skipped with a diagnostic and contributed no rows; the
\* output holds exactly the rows of the periods whose page had such a
\* table, in order, every row tagged in its year field with its period.
C2_OutputIsRowsOfPeriodsWithTable ==
    rpc \in {"scraped", "done"} =>
        LET exp == SourceRowsUpTo(Len(years))
            o == raw[1]
        IN  /\ gets = years
            /\ Len(pages) = Len(years)
            /\ \A i \in 1..Len(years) :
                  find_f1_table(pages[i]) = None
                      => <<"No data for", years[i]>> \in Range(rout)
            /\ Len(o.rows) = Len(exp)
            /\ \A k \in 1..Len(exp) :
                  /\ HasCol(o.columns, YearCol)
                  /\ o.rows[k][ColIndex(o.columns, YearCol)] = Num(exp[k].period)
                  /\ \A j \in 1..Len(exp[k].header) :
                        exp[k].header[j] # YearCol =>
                            /\ HasCol(o.columns, exp[k].header[j])
                            /\ o.rows[k][ColIndex(o.columns, exp[k].header[j])]
                                  = CellValue(exp[k].cells[j])

\* C2 witness: periods [2020, 2021], no table for 2020, a table for 2021,
\* the output written with 2021's rows only
C2_Witness ==
    /\ rpc = "done"
    /\ years = <<2020, 2021>>
    /\ find_f1_table(pages[1]) = None
    /\ find_f1_table(pages[2]) # None
    /\ rcsv # None
    /\ Len(rcsv[1].rows) = 2
    /\ \A k \in 1..2 : rcsv[1].rows[k][ColIndex(rcsv[1].columns, YearCol)] = Num(2021)

\* the acquisition call of the circuits run raised (requests.get, or
\* raise_for_status on an HTTP error status)
CircuitsFetchRaised == requests > 0 /\ soup = None
\* driver.get raised in the results run: a period was requested and no
\* page came back for it
ResultsFetchRaised == Len(gets) # Len(pages)
\* a period's page of the results run came with an HTTP error status
ResultsHttpError == \E i \in 1..Len(statuses) : IsHttpError(statuses[i])

CircuitsRunAborted ==
    /\ cpc = "aborted"
    /\ requests = 1
    /\ calls = <<"fetch_page">>
    /\ table = None /\ df_circuits = None /\ csv = None
ResultsRunAborted ==
    /\ rpc = "aborted"
    /\ gets = SubSeq(years, 1, done + 1)
    /\ Len(pages) = done
    /\ raw = None /\ df_all_races = None /\ rcsv = None

\* C6 as stated: a network or HTTP failure during page acquisition aborts
\* the run at once: it is not retried, no later period is acquired, no
\* table is located or parsed afterwards and the run writes no output
\* file, in both programs.
C6_NetworkOrHttpFailureAbortsRun ==
    /\ [](CircuitsFetchRaised => CircuitsRunAborted)
    /\ [](ResultsFetchRaised \/ ResultsHttpError => ResultsRunAborted)
    /\ [][cpc # "aborted" /\ rpc # "aborted"]_vars

\* C6 amended: a page acquisition that raises (requests.get failing or an
\* HTTP error status in the circuits run, driver.get failing in the results
\* run) aborts the run at once: it is not retried, no later period is
\* acquired, no table is located or parsed afterwards and the run writes no
\* output file. An HTTP error status in the results run is not looked at.
C6_RaisingAcquisitionAbortsRun ==
    /\ [](CircuitsFetchRaised => CircuitsRunAborted)
    /\ [](ResultsFetchRaised => ResultsRunAborted)
    /\ [][cpc # "aborted" /\ rpc # "aborted"]_vars

\* C6 witness: the second of two periods fails after the first was scraped
C6_Witness ==
    /\ rpc = "aborted"
    /\ Len(years) = 2
    /\ done = 1
    /\ Len(all_races) = 1
    /\ gets = years

\* the periods processed so far whose page had a table
Scraped == {i \in 1..Len(pages) : find_f1_table(pages[i]) # None}
KthOf(S, k) == CHOOSE i \in S : Cardinality({j \in S : j < i}) = k - 1
AllTagged(df, year) ==
    /\ HasCol(df.columns, YearCol)
    /\ \A r \in 1..Len(df.rows) : df.rows[r][ColIndex(df.columns, YearCol)] = Num(year)

\* C10: the accumulation list is append-only: processing a period leaves
\* it unchanged or appends one entry for that period at its end, earlier
\* entries are never changed, so the entries are in period order with at
\* most one entry per processed period; nothing else is carried from one
\* period to the next.
C10_AccumulationIsAppendOnly ==
    /\ [](/\ Len(all_races) = Cardinality(Scraped)
          /\ Len(all_races) <= done
          /\ \A k \in 1..Len(all_races) :
                AllTagged(all_races[k], years[KthOf(Scraped, k)]))
    /\ [][\/ all_races' = all_races
          \/ /\ done' = done + 1
             /\ Len(all_races') = Len(all_races) + 1
             /\ SubSeq(all_races', 1, Len(all_races)) = all_races
             /\ AllTagged(all_races'[Len(all_races')], years[done'])]_vars
    /\ [][rpc = "loop" /\ rpc' = "loop" =>
            UNCHANGED <<years, driver, inits, quits, raw, df_all_races, rcsv>>]_vars

\* C10 witness: two periods processed, the first appended an entry, the
\* second found no table and left the list as it was
C10_Witness ==
    /\ rpc = "loop"
    /\ done = 2
    /\ find_f1_table(pages[1]) # None
    /\ find_f1_table(pages[2]) = None
    /\ Len(all_races) = 1

(* ---------------------------------------------------------------------- *)
(* Properties of the circuits run                                          *)
(* ---------------------------------------------------------------------- *)
Located == cpc \in {"located", "done"}

\* the trimmed texts of the cells of the first row of t
HeaderRowTexts(t) ==
    IF t.rows = <<>> THEN {}
    ELSE {Strip(t.rows[1][k].text) : k \in 1..Len(t.rows[1])}

\* the trimmed texts of the th cells of t, whatever row they are in
HeaderCellTexts(t) ==
    UNION {{Strip(t.rows[r][k].text) :
                k \in {j \in 1..Len(t.rows[r]) : t.rows[r][j].tag = "th"}} :
            r \in 1..Len(t.rows)}

FirstCandidate(doc, hits) == IF hits = {} THEN None ELSE Some(doc[MinOf(hits)])

\* C3 as stated: find_circuits_table returns the first table of class
\* wikitable whose header row's set of trimmed cell texts contains exactly
\* "Circuit", and None when there is none; it never raises.
C3_FirstTableWithLabelInHeaderRow ==
    /\ (cpc = "aborted" => soup = None)
    /\ (Located =>
          table = FirstCandidate(soup[1],
                    {i \in 1..Len(soup[1]) :
                        /\ "wikitable" \in soup[1][i].class
                        /\ Circuit \in HeaderRowTexts(soup[1][i])}))

\* C3 amended: find_circuits_table returns the first table of class
\* wikitable that has a th cell, in any of its rows, whose trimmed text is
\* exactly "Circuit", and None when there is none; it never raises.
C3_FirstTableWithLabelInHeaderCell ==
    /\ (cpc = "aborted" => soup = None)
    /\ (Located =>
          table = FirstCandidate(soup[1],
                    {i \in 1..Len(soup[1]) :
                        /\ "wikitable" \in soup[1][i].class
                        /\ Circuit \in HeaderCellTexts(soup[1][i])}))

\* C3 witness: two different tables carry the label, the second one also
\* being a candidate; the first is the one returned
C3_Witness ==
    /\ cpc = "located"
    /\ Len(soup[1]) = 2
    /\ soup[1][1] # soup[1][2]
    /\ \A i \in 1..2 : "wikitable" \in soup[1][i].class
                       /\ Circuit \in HeaderCellTexts(soup[1][i])
    /\ table = Some(soup[1][1])

\* C4: when no table is found the circuits run prints a diagnostic, writes
\* no file, calls neither the extractor nor the normalizer and ends
\* normally; a file is written if and only if a table was found.
C4_NoTableNoFile ==
    /\ [](/\ (cpc = "done" /\ table = None =>
                /\ csv = None
                /\ df_circuits = None
                /\ out = <<"No table found.">>
                /\ calls = <<"fetch_page", "find_circuits_table">>)
          /\ (cpc = "done" => (csv # None <=> table # None))
          /\ (csv # None => table # None /\ "to_csv" \in Range(calls)))
    /\ [][cpc = "located" /\ table = None => cpc' = "done"]_vars

\* C4 witness: the page has wikitables, none of them with the label
C4_Witness ==
    /\ cpc = "done"
    /\ table = None
    /\ \E i \in 1..Len(soup[1]) : "wikitable" \in soup[1][i].class
    /\ csv = None

\* the data cells (td) of the i-th data row of the located table
DataCells(i) == SelectSeq(table[1].rows[i + 1], LAMBDA c : c.tag = "td")
Qualifying == {i \in 1..(Len(table[1].rows) - 1) : Len(DataCells(i)) >= 10}

\* C5: every data row (row after the first) with fewer than 10 data cells
\* is left out without an error, every data row with at least 10 produces
\* exactly one record, and the records are in the order of their rows.
C5_OneRecordPerQualifyingRow ==
    (cpc = "done" /\ table # None) =>
        /\ df_circuits # None
        /\ Len(df_circuits[1].rows) = Cardinality(Qualifying)
        /\ \A k \in 1..Len(df_circuits[1].rows) :
              /\ df_circuits[1].rows[k][1]
                    = Str(Strip(DataCells(KthOf(Qualifying, k))[1].text))
              /\ df_circuits[1].rows[k][6]
                    = Str(Strip(DataCells(KthOf(Qualifying, k))[10].text))

\* C5 witness: a row with nine data cells is dropped, the row after it
\* with eleven is kept
C5_Witness ==
    /\ cpc = "done"
    /\ table # None
    /\ Len(table[1].rows) = 3
    /\ Qualifying = {2}
    /\ Len(DataCells(1)) = 9
    /\ Len(df_circuits[1].rows) = 1

ExpectedFields ==
    << <<"c","i","r","c","u","i","t">>,
       <<"l","o","c","a","t","i","o","n">>,
       <<"c","o","u","n","t","r","y">>,
       <<"l","a","s","t","_","l","e","n","g","t","h","_","u","s","e","d">>,
       <<"c","i","r","c","u","i","t","_","l","a","p","s">>,
       <<"s","e","a","s","o","n","s">> >>

\* C9: every qualifying data row yields a record with exactly the fields
\* circuit, location, country, last_length_used, circuit_laps, seasons,
\* holding the trimmed texts of data cells 0, 4, 5, 6, 7 and 9 of the row;
\* cells 1, 2, 3 and 8 have no influence.
C9_RecordIsCellsZeroFourFiveSixSevenNine ==
    csv # None =>
        /\ csv[1].columns = ExpectedFields
        /\ Len(csv[1].rows) = Cardinality(Qualifying)
        /\ \A k \in 1..Len(csv[1].rows) :
              LET cells == DataCells(KthOf(Qualifying, k))
              IN  csv[1].rows[k] =
                    << Str(Strip(cells[1].text)), Str(Strip(cells[5].text)),
                       Str(Strip(cells[6].text)), Str(Strip(cells[7].text)),
                       Str(Strip(cells[8].text)), Str(Strip(cells[10].text)) >>

\* C9 witness: the header row and the Silverstone row give one record
C9_Witness ==
    /\ cpc = "done"
    /\ table # None
    /\ table[1].rows = <<HeaderRow, RowSilverstone>>
    /\ csv = Some(DataFrame(ExpectedFields,
                << << Str(Silverstone), Str(Silverstone), Str(<<"U","K">>),
                      Str(<<"5",".","8","9","1"," ","k","m">>), Str(<<"5","2">>),
                      Str(<<"1","9","5","0","-","p","r","e","s","e","n","t">>) >> >>))

(* ---------------------------------------------------------------------- *)
(* Properties of clean_data                                                *)
(* ---------------------------------------------------------------------- *)
Cleaned == rpc = "done" /\ rcsv # None

\* C7: the normalisation of field names (lower-case, blanks to
\* underscores) is idempotent: applied to the names clean_data produced,
\* it returns the same names.
C7_NormalizationIsIdempotent ==
    /\ (raw # None =>
          normalize_columns(normalize_columns(raw[1].columns))
              = normalize_columns(raw[1].columns))
    /\ (Cleaned =>
          /\ Len(df_all_races[1].columns) = Len(raw[1].columns)
          /\ normalize_columns(df_all_races[1].columns) = df_all_races[1].columns)

\* C7 witness: a name with an upper-case letter and a blank was normalised
C7_Witness ==
    /\ Cleaned
    /\ raw[1].columns[1] = <<"A", " ">>
    /\ df_all_races[1].columns[1] = <<"a", "_">>

\* what the date column must hold for a scraped date value and a year
ExpectedDate(v, y) ==
    IF v = Str(FiveMar) THEN Date(y, 3, 5)
    ELSE IF v = Str(<<"0", "5", " ", " ", "m", "a", "r">>) THEN Date(y, 3, 5)
    ELSE IF v = Str(FebTwentyNine) /\ y = 2020 THEN Date(2020, 2, 29)
    ELSE NaT

\* what the laps column must hold for a scraped laps value
ExpectedLaps(v) == IF v = Str(<<"5", "2">>) THEN Num(52) ELSE NaN

\* C8: clean_data of the results run does not fail on an unparseable
\* value: with a date and a year field, the date becomes the calendar date
\* of the day-month text and the year when that parses as day month year
\* ("5 Mar", 2021 gives 2021-03-05) and the missing-value marker when it
\* does not; a non-numeric laps value becomes the missing-value marker;
\* the record stays in the output.
C8_UnparseableBecomesMissing ==
    (Cleaned /\ raw[1].columns = ScrapedColumns) =>
        /\ Len(rcsv[1].rows) = Len(raw[1].rows)
        /\ \A r \in 1..Len(raw[1].rows) :
              /\ rcsv[1].rows[r][1] = raw[1].rows[r][1]
              /\ rcsv[1].rows[r][2]
                    = ExpectedDate(raw[1].rows[r][2], raw[1].rows[r][4][2])
              /\ rcsv[1].rows[r][3] = ExpectedLaps(raw[1].rows[r][3])
              /\ rcsv[1].rows[r][4] = raw[1].rows[r][4]

\* C8 witness: "5 Mar" of 2021 with a non-numeric laps value next to a row
\* with an unparseable date, both rows in the output
C8_Witness ==
    /\ Cleaned
    /\ raw[1].columns = ScrapedColumns
    /\ Len(rcsv[1].rows) = 2
    /\ raw[1].rows[1][2] = Str(FiveMar)
    /\ raw[1].rows[1][4] = Num(2021)
    /\ rcsv[1].rows[1][2] = Date(2021, 3, 5)
    /\ raw[1].rows[1][3] = Str(<<"d", "n", "f">>)
    /\ rcsv[1].rows[1][3] = NaN
    /\ raw[1].rows[2][2] = Str(<<"M", "a", "r", " ", "5">>)
    /\ rcsv[1].rows[2][2] = NaT

====
